---- MODULE Spec2Model ----
(***************************************************************************)
(* A model of galsim/sensor.py: the SiliconSensor class.                   *)
(*                                                                         *)
(* Three specifications share the module.                                  *)
(*   SpecConfig  SiliconSensor.ReadConfigFile, one step per line of the    *)
(*               configuration file (the body of the `for line in lines`   *)
(*               loop), with the token walk and the int/float/str          *)
(*               coercion computed as Python computes them.                *)
(*   Spec        the constructor of one SiliconSensor (rng check,          *)
(*               configuration, CalcDiffStep, vertex file, size check,     *)
(*               engine construction), to its return or its raise.         *)
(*   SpecAccumulate  accumulate calls on a constructed sensor              *)
(*               (WritePhotonFile step by step, then the engine).          *)
(***************************************************************************)
EXTENDS Integers, Sequences, FiniteSets, TLC

VARIABLES
    \* ---- ReadConfigFile ----
    rc_pc,        \* "open" | "loop" | "returned"
    linesRead,    \* number of lines the loop has consumed
    line,         \* line.strip().split() of the line last consumed
    ThisLine,     \* the list ThisLine as the loop body left it
    ParamName,    \* the local ParamName (None before the first accepted line)
    ConfigData,   \* the dictionary under construction / handed to __init__
    cfg_success,  \* the boolean ReadConfigFile returns
    \* ---- the sensor object ----
    pc,           \* position in __init__ / accumulate
    exc,          \* the exception that left the last call ("none" if none)
    arg,          \* the arguments of __init__
    rng,          \* self.rng
    photon_file,  \* self.photon_file
    DiffStep,     \* local of __init__
    vertex_data,  \* local of __init__: unbound, or the loaded element count
    silicon,      \* self._silicon: unset, or the engine built from 9 arguments
    photons,      \* the batch of the accumulate call in progress
    wi,           \* loop index i of WritePhotonFile
    logOpen,      \* TRUE while WritePhotonFile holds the file open
    logFile,      \* the photon log on disk: absent, or its lines
    logWrites,    \* number of times the log was opened with mode 'w'
    image,        \* image.image: charge the engine has deposited
    engineCalls,  \* number of calls of the engine's accumulate
    lastCall      \* the arguments of its last call

objVars == <<pc, exc, arg, rng, photon_file, DiffStep, vertex_data, silicon,
             photons, wi, logOpen, logFile, logWrites, image, engineCalls, lastCall>>
vars == <<rc_pc, linesRead, line, ThisLine, ParamName, ConfigData, cfg_success,
          pc, exc, arg, rng, photon_file, DiffStep, vertex_data, silicon,
          photons, wi, logOpen, logFile, logWrites, image, engineCalls, lastCall>>

None == "None"

(***************************************************************************)
(* Bounds of the model.                                                    *)
(***************************************************************************)
MaxTokens == 3
MaxLines == 2
MaxVertexSize == 41
MaxPhotons == 2
MaxCalls == 2

(***************************************************************************)
(* Tokens are sequences of characters, so that `list(item)[0]` and the     *)
(* parses of int() and float() are computed from the characters.  split()  *)
(* never yields an empty token.                                            *)
(***************************************************************************)
EqTok == <<"=">>

NameTokens == { <<"A">>, <<"#", "c">> }

ValueTokens == { EqTok, <<"#", "n">>, <<"7">>, <<"1", ".", "5">>, <<"x">> }

RECURSIVE SeqsUpTo(_, _)
SeqsUpTo(S, n) ==
    IF n = 0 THEN { <<>> }
    ELSE LET shorter == SeqsUpTo(S, n - 1)
         IN  shorter \cup { Append(s, t) : s \in shorter, t \in S }

\* The split lines a file may hold: blank lines, and a first token followed
\* by up to MaxTokens - 1 further tokens.
Lines == { <<>> } \cup { <<nm>> \o rest : nm \in NameTokens,
                                           rest \in SeqsUpTo(ValueTokens, MaxTokens - 1) }

(***************************************************************************)
(* int(s), float(s): Python's grammar restricted to the characters the     *)
(* tokens are made of (sign, decimal digits, one point).                   *)
(***************************************************************************)
Digits == { "0", "1", "2", "3", "4", "5", "6", "7", "8", "9" }

DigitVal(c) ==
    CASE c = "0" -> 0 [] c = "1" -> 1 [] c = "2" -> 2 [] c = "3" -> 3 [] c = "4" -> 4
      [] c = "5" -> 5 [] c = "6" -> 6 [] c = "7" -> 7 [] c = "8" -> 8 [] c = "9" -> 9

RECURSIVE DigitsVal(_)
DigitsVal(s) ==
    IF s = <<>> THEN 0
    ELSE 10 * DigitsVal(SubSeq(s, 1, Len(s) - 1)) + DigitVal(s[Len(s)])

AllDigits(s) == \A k \in 1..Len(s) : s[k] \in Digits

HasSign(s) == Len(s) > 0 /\ s[1] \in { "+", "-" }
Unsigned(s) == IF HasSign(s) THEN Tail(s) ELSE s
SignOf(s) == IF Len(s) > 0 /\ s[1] = "-" THEN -1 ELSE 1

\* int(s) does not raise ValueError
ParsesInt(s) == Len(Unsigned(s)) > 0 /\ AllDigits(Unsigned(s))

PointAt(s) == { k \in 1..Len(s) : s[k] = "." }

\* float(s) does not raise ValueError
ParsesFloat(s) ==
    LET u == Unsigned(s)
    IN  \/ ParsesInt(s)
        \/ /\ Cardinality(PointAt(u)) = 1
           /\ Len(u) > 1
           /\ \A k \in 1..Len(u) : u[k] \in Digits \cup { "." }

\* Values of the dictionary.  A scalar is [tag, n, scale, s]: an int n, a
\* float n / 10^scale (trailing zeros of the fraction dropped), or a string s.
IntVal(n) == [tag |-> "int", n |-> n, scale |-> 0, s |-> <<>>]
StrVal(s) == [tag |-> "str", n |-> 0, scale |-> 0, s |-> s]

RECURSIVE FloatVal(_, _)
FloatVal(n, scale) ==
    IF scale > 0 /\ n % 10 = 0 THEN FloatVal(n \div 10, scale - 1)
    ELSE [tag |-> "float", n |-> n, scale |-> scale, s |-> <<>>]

IntOf(s) == IntVal(SignOf(s) * DigitsVal(Unsigned(s)))

FloatOf(s) ==
    LET u == Unsigned(s)
    IN  IF PointAt(u) = {} THEN FloatVal(SignOf(s) * DigitsVal(u), 0)
        ELSE LET p == CHOOSE k \in PointAt(u) : TRUE
                 whole == SubSeq(u, 1, p - 1)
                 frac == SubSeq(u, p + 1, Len(u))
             IN  FloatVal(SignOf(s) * DigitsVal(whole \o frac), Len(frac))

\* Coerce with the two parses in the wrong order: float() is tried before int().
CoerceFloatFirst(item) ==
    IF ParsesFloat(item) THEN FloatOf(item)
    ELSE IF ParsesInt(item) THEN IntOf(item)
    ELSE StrVal(item)

\* try int(item) / except ValueError: try float(item) / except ValueError: item
Coerce(item) ==
    IF ParsesInt(item) THEN IntOf(item)
    ELSE IF ParsesFloat(item) THEN FloatOf(item)
    ELSE StrVal(item)

\* The stored value: a scalar, or the list ThisParam.
Scalar(v) == [kind |-> "scalar", items |-> <<v>>]
List(vs) == [kind |-> "list", items |-> vs]

(***************************************************************************)
(* The token walk: `for counter, item in enumerate(ThisLine)` over a list  *)
(* the body mutates.  The list iterator keeps an index `it` (0-based,      *)
(* equal to `counter`); it stops when it >= len(list), else yields         *)
(* list[it] and advances, whatever the body did to the list.               *)
(***************************************************************************)
\* list.remove(x): delete the first element equal to x
RemoveFirst(lst, x) ==
    LET k == CHOOSE j \in 1..Len(lst) : lst[j] = x /\ \A h \in 1..(j - 1) : lst[h] # x
    IN  SubSeq(lst, 1, k - 1) \o SubSeq(lst, k + 1, Len(lst))

RECURSIVE Walk(_, _)
Walk(lst, it) ==
    IF it >= Len(lst) THEN lst
    ELSE LET item == lst[it + 1]
         IN  IF item[1] = "#" THEN Walk(SubSeq(lst, 1, it), it + 1)
             ELSE IF item = EqTok THEN Walk(RemoveFirst(lst, item), it + 1)
             ELSE Walk(lst, it + 1)

\* TooShort with an off-by-one threshold: two tokens are enough.
TooShortTwo(tokens) == Len(tokens) < 2

\* if ThisLineLength < 3: continue
TooShort(tokens) == Len(tokens) < 3

\* if list(ThisLine[0])[0]=='#' or ThisLine[0]=='\n': continue
CommentLine(tokens) == tokens[1][1] = "#" \/ tokens[1] = <<"\n">>

\* lines 167-186: the value stored for the tokens the walk left (one or more)
StoreValue(tokens) ==
    IF Len(tokens) = 1 THEN Scalar(Coerce(tokens[1]))
    ELSE List([k \in 1..Len(tokens) |-> Coerce(tokens[k])])

\* ConfigData[key] = value
DictSet(d, key, value) ==
    [k \in (DOMAIN d) \cup {key} |-> IF k = key THEN value ELSE d[k]]

EmptyDict == [k \in {} |-> 0]

InitConfig ==
    /\ rc_pc = "open"
    /\ linesRead = 0
    /\ line = <<>>
    /\ ThisLine = <<>>
    /\ ParamName = None
    /\ ConfigData = EmptyDict
    /\ cfg_success = FALSE

\* open(filename,'r'); readlines(); close() succeed
OpenConfig ==
    /\ rc_pc = "open"
    /\ rc_pc' = "loop"
    /\ UNCHANGED <<linesRead, line, ThisLine, ParamName, ConfigData, cfg_success>>

\* open raises IOError: return False, ConfigData
OpenConfigFails ==
    /\ rc_pc = "open"
    /\ rc_pc' = "returned"
    /\ cfg_success' = FALSE
    /\ UNCHANGED <<linesRead, line, ThisLine, ParamName, ConfigData>>

\* One pass of the body of `for line in lines`.
ParseLine(tokens) ==
    /\ rc_pc = "loop"
    /\ linesRead < MaxLines
    /\ linesRead' = linesRead + 1
    /\ line' = tokens
    /\ IF TooShort(tokens) \/ CommentLine(tokens)
       THEN /\ ThisLine' = tokens
            /\ UNCHANGED <<ParamName, ConfigData>>
       ELSE LET walked == Walk(Tail(tokens), 0)
            IN  /\ ParamName' = tokens[1]
                /\ ThisLine' = walked
                /\ IF Len(walked) = 0
                   THEN UNCHANGED ConfigData
                   ELSE ConfigData' = DictSet(ConfigData, tokens[1], StoreValue(walked))
    /\ UNCHANGED <<rc_pc, cfg_success>>

NextLine ==
    /\ rc_pc = "loop" /\ linesRead < MaxLines
    /\ \E tokens \in Lines : ParseLine(tokens)

\* the loop is exhausted: return True, ConfigData
ReturnConfig ==
    /\ rc_pc = "loop"
    /\ rc_pc' = "returned"
    /\ cfg_success' = TRUE
    /\ UNCHANGED <<linesRead, line, ThisLine, ParamName, ConfigData>>

(***************************************************************************)
(* The sensor object.                                                      *)
(***************************************************************************)
DefaultQDist == 3
DefaultNrecalc == 10000

\* The arguments of SiliconSensor(...).  rng is given by its type; DiffMult
\* 0 "turns off diffusion", 1 is the default.
CtorArgs == [rng : { None, "BaseDeviate", "NotADeviate" },
             NumElec : { 1000 },
             DiffMult : { 0, 1 },
             QDist : { DefaultQDist },
             Nrecalc : { DefaultNrecalc }]

\* Keys in the order line 95 reads them, then the keys of lines 96-99.
DiffKeys == << "CollectingPhases", "PixelSize", "ChannelStopWidth", "Vbb",
               "Vparallel_lo", "Vparallel_hi", "CCDTemperature" >>
GeomKeys == << "NumVertices", "PixelBoundaryNx", "PixelBoundaryNy", "PixelSize" >>

\* The tables ReadConfigFile may hand to __init__: numeric values for the
\* ten keys, or such a table with one key left out.
FullTables == [CollectingPhases : { 1, 2, 3 },
               PixelSize : { 0, 10 },
               ChannelStopWidth : { 2 },
               Vbb : { -40, -4, 0, 4 },
               Vparallel_lo : { -8 },
               Vparallel_hi : { 4 },
               CCDTemperature : { 173 },
               NumVertices : { 0, 1 },
               PixelBoundaryNx : { 1, 2 },
               PixelBoundaryNy : { 1, 2 }]

Without(t, key) == [k \in (DOMAIN t) \ {key} |-> t[k]]

ConfigTables ==
    FullTables \cup UNION { { Without(t, key) : key \in DOMAIN t } : t \in FullTables }

(***************************************************************************)
(* Floating-point results of CalcDiffStep, kept exact: a finite value      *)
(* stands for 100.0 * sqrt(num / den) * mult, and nan for what np.sqrt     *)
(* gives for a negative argument.                                          *)
(***************************************************************************)
Zero == [fk |-> "finite", num |-> 0, den |-> 1, mult |-> 0]
NaN == [fk |-> "nan", num |-> 0, den |-> 1, mult |-> 0]
Unset == [fk |-> "unset", num |-> 0, den |-> 1, mult |-> 0]

\* 100.0 * np.sqrt(2.0 * 0.026 * T / 298.0 / Vdiff) * DiffMult, with
\* Vdiff = Vdiff3 / 3, so the argument is (2*26*3*T) / (1000*298*Vdiff3).
SqrtTimes(T, Vdiff3, DiffMult) ==
    LET num == 2 * 26 * 3 * T
        den == 1000 * 298 * Vdiff3
    IN  IF (num > 0 /\ den < 0) \/ (num < 0 /\ den > 0) THEN NaN
        ELSE IF num = 0 \/ DiffMult = 0 THEN Zero
        ELSE [fk |-> "finite",
              num |-> IF num < 0 THEN -num ELSE num,
              den |-> IF den < 0 THEN -den ELSE den,
              mult |-> DiffMult]

Returns(v) == [raises |-> "none", value |-> v]
Raises(e) == [raises |-> e, value |-> Unset]

\* CalcDiffStep, lines 195-221.  Lines 203-204 divide by PixelSize before
\* CollectingPhases is looked at; line 218 divides by Vdiff (a Python float:
\* ZeroDivisionError at 0.0) and takes np.sqrt (nan below 0).
CalcDiffStep(CollectingPhases, PixelSize, ChannelStopWidth, Vbb, Vparallel_lo, Vparallel_hi, CCDTemperature, DiffMult) ==
    IF PixelSize = 0 THEN Raises("ZeroDivisionError")
    ELSE IF CollectingPhases \notin { 1, 2 } THEN Returns(Zero)
    ELSE LET Vdiff3 == IF CollectingPhases = 1
                       THEN (2 * Vparallel_lo + Vparallel_hi) - 3 * Vbb
                       ELSE (Vparallel_lo + 2 * Vparallel_hi) - 3 * Vbb
         IN  IF Vdiff3 = 0 THEN Raises("ZeroDivisionError")
             ELSE Returns(SqrtTimes(CCDTemperature, Vdiff3, DiffMult))

\* SizeMatches relaxed: a dataset longer than expected is accepted too.
SizeAtLeast(size, Nx, Ny, NumVertices) ==
    size >= 5 * Nx * Ny * (4 * NumVertices + 4)

\* vertex_data.size == 5 * Nx * Ny * (4 * NumVertices + 4)
SizeMatches(size, Nx, Ny, NumVertices) ==
    size = 5 * Nx * Ny * (4 * NumVertices + 4)

Unbound == [loaded |-> FALSE, size |-> 0]
Loaded(n) == [loaded |-> TRUE, size |-> n]

NoEngine == [built |-> FALSE]

\* galsim._galsim.Silicon(NumVertices, NumElec, Nx, Ny, QDist, Nrecalc,
\*                        DiffStep, PixelSize, vertex_data)
Silicon(NumVertices, NumElec, Nx, Ny, QDist, Nrecalc, DiffStepArg, PixelSize, data) ==
    [built |-> TRUE, NumVertices |-> NumVertices, NumElec |-> NumElec,
     Nx |-> Nx, Ny |-> Ny, QDist |-> QDist, Nrecalc |-> Nrecalc,
     DiffStep |-> DiffStepArg, PixelSize |-> PixelSize, vertex_data |-> data]

\* The locals of __init__ once the call has returned.
ArgsGone == [rng |-> "gone", NumElec |-> 0, DiffMult |-> 0, QDist |-> 0, Nrecalc |-> 0]

(***************************************************************************)
(* Photon batches.  Positions, slopes and wavelengths are in units of      *)
(* 1e-7; a log record holds what '%.6f' prints, in units of 1e-6.          *)
(***************************************************************************)
PhotonSet ==
    { [x |-> 35000004, y |-> 45000000, dxdz |-> 1000006, dydz |-> -2000006,
       wavelength |-> 2000000004],
      [x |-> 12000006, y |-> 7, dxdz |-> 0, dydz |-> 3000000,
       wavelength |-> 1500000000] }

Batches == [ph : SeqsUpTo(PhotonSet, MaxPhotons),
            hasAngles : BOOLEAN,
            hasWavelengths : BOOLEAN]

NoBatch == [ph |-> <<>>, hasAngles |-> FALSE, hasWavelengths |-> FALSE]

\* '%.6f' % v: v rounded to the nearest 1e-6 (no input lies on a tie)
Fmt6(v) == IF v >= 0 THEN (v + 5) \div 10 ELSE - (((- v) + 5) \div 10)

Header == "ID \t X(pixels) \t Y(pixels) \t dxdz      \t dydz      \t lambda(nm)\n"

\* lines 228-241: the record written for photon i (0-based)
PhotonRecord(batch, i) ==
    LET p == batch.ph[i + 1]
    IN  [ID |-> i, x |-> Fmt6(p.x), y |-> Fmt6(p.y),
         dxdz |-> IF batch.hasAngles THEN Fmt6(p.dxdz) ELSE Fmt6(0),
         dydz |-> IF batch.hasAngles THEN Fmt6(p.dydz) ELSE Fmt6(0),
         lamb |-> IF batch.hasWavelengths THEN Fmt6(p.wavelength) ELSE Fmt6(0)]

Absent == [exists |-> FALSE, lines |-> <<>>]
FileOf(lns) == [exists |-> TRUE, lines |-> lns]

NoCall == [made |-> FALSE]

\* The engine's accumulate deposits the charge of the batch in the image.
EngineAccumulate(img, batch) == img + Len(batch.ph)

Init ==
    /\ InitConfig
    /\ pc = "new"
    /\ exc = "none"
    /\ arg \in CtorArgs
    /\ rng = None
    /\ photon_file = None
    /\ DiffStep = Unset
    /\ vertex_data = Unbound
    /\ silicon = NoEngine
    /\ photons = NoBatch
    /\ wi = 0
    /\ logOpen = FALSE
    /\ logFile = Absent
    /\ logWrites = 0
    /\ image = 0
    /\ engineCalls = 0
    /\ lastCall = NoCall

accVars == <<photons, wi, logOpen, logFile, logWrites, image, engineCalls, lastCall>>
unusedVars == <<rc_pc, linesRead, line, ThisLine, ParamName>>

\* RngAccepted without the isinstance test: anything is taken as a generator.
RngAcceptedAlways(r) == TRUE

\* rng is None or isinstance(rng, galsim.BaseDeviate)
RngAccepted(r) == r = None \/ r = "BaseDeviate"

\* __init__, lines 85-91
CtorRng ==
    /\ pc = "new"
    /\ photon_file' = None
    /\ IF RngAccepted(arg.rng)
       THEN /\ rng' = IF arg.rng = None THEN "UniformDeviate()" ELSE "UniformDeviate(rng)"
            /\ pc' = "rng_done"
            /\ exc' = "none"
       ELSE /\ rng' = rng
            /\ pc' = "raised"
            /\ exc' = "TypeError"
    /\ UNCHANGED <<arg, DiffStep, vertex_data, silicon, ConfigData, cfg_success>>
    /\ UNCHANGED accVars
    /\ UNCHANGED unusedVars

\* The first key of `keys` that the table lacks (0 if it has them all).
FirstMissing(table, keys) ==
    IF \E k \in 1..Len(keys) : keys[k] \notin DOMAIN table
    THEN CHOOSE k \in 1..Len(keys) :
             keys[k] \notin DOMAIN table /\ \A h \in 1..(k - 1) : keys[h] \in DOMAIN table
    ELSE 0

\* __init__, lines 93-101, for what ReadConfigFile returned
CtorConfig(success, table) ==
    /\ pc = "rng_done"
    /\ cfg_success' = success
    /\ ConfigData' = table
    /\ IF ~ success
       THEN pc' = "raised" /\ exc' = "IOError" /\ DiffStep' = DiffStep
       ELSE IF FirstMissing(table, DiffKeys) # 0
       THEN pc' = "raised" /\ exc' = "KeyError" /\ DiffStep' = DiffStep
       ELSE LET r == CalcDiffStep(table["CollectingPhases"], table["PixelSize"],
                                  table["ChannelStopWidth"], table["Vbb"],
                                  table["Vparallel_lo"], table["Vparallel_hi"],
                                  table["CCDTemperature"], arg.DiffMult)
            IN  IF r.raises # "none"
                THEN pc' = "raised" /\ exc' = r.raises /\ DiffStep' = DiffStep
                ELSE IF FirstMissing(table, GeomKeys) # 0
                THEN pc' = "raised" /\ exc' = "KeyError" /\ DiffStep' = r.value
                ELSE pc' = "cfg_done" /\ exc' = "none" /\ DiffStep' = r.value
    /\ UNCHANGED <<arg, rng, photon_file, vertex_data, silicon>>
    /\ UNCHANGED accVars
    /\ UNCHANGED unusedVars

CtorReadConfig ==
    /\ pc = "rng_done"
    /\ \/ CtorConfig(FALSE, EmptyDict)
       \/ \E table \in ConfigTables : CtorConfig(TRUE, table)

\* __init__, lines 103-107: np.loadtxt(vertex_file, skiprows = 1)
CtorLoad(outcome, n) ==
    /\ pc = "cfg_done"
    /\ CASE outcome = "loaded" ->
              vertex_data' = Loaded(n) /\ pc' = "load_done" /\ exc' = "none"
         [] outcome = "IOError" ->
              \* caught and printed; vertex_data stays unbound
              vertex_data' = vertex_data /\ pc' = "load_done" /\ exc' = "none"
         [] outcome = "ValueError" ->
              vertex_data' = vertex_data /\ pc' = "raised" /\ exc' = "ValueError"
    /\ UNCHANGED <<arg, rng, photon_file, DiffStep, silicon, ConfigData, cfg_success>>
    /\ UNCHANGED accVars
    /\ UNCHANGED unusedVars

CtorLoadVertex ==
    \/ \E n \in 0..MaxVertexSize : CtorLoad("loaded", n)
    \/ CtorLoad("IOError", 0)
    \/ CtorLoad("ValueError", 0)

\* __init__, lines 115-118; on return the locals go out of scope
CtorCheckSize ==
    /\ pc = "load_done"
    /\ IF ~ vertex_data.loaded
       THEN /\ pc' = "raised" /\ exc' = "UnboundLocalError"
            /\ UNCHANGED <<arg, DiffStep, vertex_data, silicon, ConfigData, cfg_success>>
       ELSE IF SizeMatches(vertex_data.size, ConfigData["PixelBoundaryNx"],
                           ConfigData["PixelBoundaryNy"], ConfigData["NumVertices"])
       THEN /\ silicon' = Silicon(ConfigData["NumVertices"], arg.NumElec,
                                  ConfigData["PixelBoundaryNx"],
                                  ConfigData["PixelBoundaryNy"],
                                  arg.QDist, arg.Nrecalc, DiffStep,
                                  ConfigData["PixelSize"], vertex_data.size)
            /\ pc' = "ready" /\ exc' = "none"
            /\ arg' = ArgsGone /\ DiffStep' = Unset /\ vertex_data' = Unbound
            /\ ConfigData' = EmptyDict /\ cfg_success' = FALSE
       ELSE /\ pc' = "raised" /\ exc' = "IOError"
            /\ UNCHANGED <<arg, DiffStep, vertex_data, silicon, ConfigData, cfg_success>>
    /\ UNCHANGED <<rng, photon_file>>
    /\ UNCHANGED accVars
    /\ UNCHANGED unusedVars

ctorVars == <<arg, rng, DiffStep, vertex_data, silicon, ConfigData, cfg_success>>

\* The caller sets sensor.photon_file (None: no log) between calls.
SetPhotonFile(path) ==
    /\ pc = "ready"
    /\ path # photon_file
    /\ photon_file' = path
    /\ UNCHANGED <<pc, exc>>
    /\ UNCHANGED ctorVars
    /\ UNCHANGED accVars
    /\ UNCHANGED unusedVars

ConfigurePhotonFile == \E path \in { None, "photons.dat" } : SetPhotonFile(path)

\* AfterEntry without the photon_file test: the call goes straight to the engine.
AfterEntryDelegateFirst(path) == "delegate"

\* accumulate, lines 129-130: where the call goes first
AfterEntry(path) == IF path # None THEN "wp_open" ELSE "delegate"

\* sensor.accumulate(photons, image) is called on a constructed sensor
AccumulateCall(batch) ==
    /\ pc = "ready"
    /\ engineCalls < MaxCalls
    /\ photons' = batch
    /\ exc' = "none"
    /\ pc' = AfterEntry(photon_file)
    /\ UNCHANGED <<wi, logOpen, logFile, logWrites, image, engineCalls, lastCall>>
    /\ UNCHANGED photon_file
    /\ UNCHANGED ctorVars
    /\ UNCHANGED unusedVars

Accumulate ==
    /\ pc = "ready" /\ engineCalls < MaxCalls
    /\ \E batch \in Batches : AccumulateCall(batch)

\* OpenForWrite with mode 'a': the file is opened for appending.
OpenForAppend(f) == FileOf(f.lines)

\* open(self.photon_file, 'w'): the file is created or truncated
OpenForWrite(f) == FileOf(<<>>)

\* WritePhotonFile, line 225
WPOpen(ok) ==
    /\ pc = "wp_open"
    /\ IF ok
       THEN /\ logFile' = OpenForWrite(logFile)
            /\ logOpen' = TRUE
            /\ logWrites' = logWrites + 1
            /\ pc' = "wp_header"
            /\ UNCHANGED <<exc, photons>>
       ELSE \* IOError leaves WritePhotonFile and accumulate
            /\ pc' = "ready"
            /\ exc' = "IOError"
            /\ photons' = NoBatch
            /\ UNCHANGED <<logFile, logOpen, logWrites>>
    /\ UNCHANGED <<wi, image, engineCalls, lastCall, photon_file>>
    /\ UNCHANGED ctorVars
    /\ UNCHANGED unusedVars

WritePhotonFileOpen == \E ok \in BOOLEAN : WPOpen(ok)

\* WritePhotonFile, line 226
WritePhotonFileHeader ==
    /\ pc = "wp_header"
    /\ logFile' = FileOf(Append(logFile.lines, Header))
    /\ wi' = 0
    /\ pc' = "wp_loop"
    /\ UNCHANGED <<exc, photons, logOpen, logWrites, image, engineCalls, lastCall, photon_file>>
    /\ UNCHANGED ctorVars
    /\ UNCHANGED unusedVars

\* WritePhotonFile, lines 227-241: one pass of `for i in range(photons.size())`
WritePhotonFileRecord ==
    /\ pc = "wp_loop"
    /\ wi < Len(photons.ph)
    /\ logFile' = FileOf(Append(logFile.lines, PhotonRecord(photons, wi)))
    /\ wi' = wi + 1
    /\ UNCHANGED <<pc, exc, photons, logOpen, logWrites, image, engineCalls, lastCall, photon_file>>
    /\ UNCHANGED ctorVars
    /\ UNCHANGED unusedVars

\* WritePhotonFile, lines 242-243: file.close(); return
WritePhotonFileClose ==
    /\ pc = "wp_loop"
    /\ wi >= Len(photons.ph)
    /\ logOpen' = FALSE
    /\ pc' = "delegate"
    /\ UNCHANGED <<exc, photons, wi, logFile, logWrites, image, engineCalls, lastCall, photon_file>>
    /\ UNCHANGED ctorVars
    /\ UNCHANGED unusedVars

\* accumulate, line 132: self._silicon.accumulate(photons, self.rng, image.image)
Delegate ==
    /\ pc = "delegate"
    /\ silicon.built
    /\ lastCall' = [made |-> TRUE, photons |-> photons, rng |-> rng, image |-> image]
    /\ engineCalls' = engineCalls + 1
    /\ image' = EngineAccumulate(image, photons)
    /\ photons' = NoBatch
    /\ wi' = 0
    /\ pc' = "ready"
    /\ UNCHANGED <<exc, logOpen, logFile, logWrites, photon_file>>
    /\ UNCHANGED ctorVars
    /\ UNCHANGED unusedVars

\* The constructor of one SiliconSensor, from the call to its return or raise.
Next ==
    \/ CtorRng
    \/ CtorReadConfig
    \/ CtorLoadVertex
    \/ CtorCheckSize

Spec == Init /\ [][Next]_vars

(***************************************************************************)
(* accumulate on a sensor whose constructor has returned.  The sensor is   *)
(* the one built from the configuration CollectingPhases=1, PixelSize=10,  *)
(* ChannelStopWidth=2, Vbb=-40, Vparallel_lo=-8, Vparallel_hi=4,           *)
(* CCDTemperature=173, one vertex per edge on a 1 x 1 grid, with either    *)
(* kind of rng.                                                            *)
(***************************************************************************)
BuiltSensor ==
    Silicon(1, 1000, 1, 1, DefaultQDist, DefaultNrecalc,
            CalcDiffStep(1, 10, 2, -40, -8, 4, 173, 1).value, 10, 40)

InitAccumulate ==
    /\ InitConfig
    /\ pc = "ready"
    /\ exc = "none"
    /\ arg = ArgsGone
    /\ rng \in { "UniformDeviate()", "UniformDeviate(rng)" }
    /\ photon_file = None
    /\ DiffStep = Unset
    /\ vertex_data = Unbound
    /\ silicon = BuiltSensor
    /\ photons = NoBatch
    /\ wi = 0
    /\ logOpen = FALSE
    /\ logFile = Absent
    /\ logWrites = 0
    /\ image = 0
    /\ engineCalls = 0
    /\ lastCall = NoCall

NextAccumulate ==
    \/ ConfigurePhotonFile
    \/ Accumulate
    \/ WritePhotonFileOpen
    \/ WritePhotonFileHeader
    \/ WritePhotonFileRecord
    \/ WritePhotonFileClose
    \/ Delegate

SpecAccumulate == InitAccumulate /\ [][NextAccumulate]_vars

\* Under SpecConfig no sensor object is in play.
ObjIdle ==
    /\ pc = "idle" /\ exc = "none" /\ arg = ArgsGone /\ rng = None
    /\ photon_file = None /\ DiffStep = Unset /\ vertex_data = Unbound
    /\ silicon = NoEngine /\ photons = NoBatch /\ wi = 0 /\ logOpen = FALSE
    /\ logFile = Absent /\ logWrites = 0 /\ image = 0 /\ engineCalls = 0
    /\ lastCall = NoCall

NextConfig ==
    \/ OpenConfig /\ UNCHANGED objVars
    \/ OpenConfigFails /\ UNCHANGED objVars
    \/ NextLine /\ UNCHANGED objVars
    \/ ReturnConfig /\ UNCHANGED objVars

InitReadConfig == InitConfig /\ ObjIdle

SpecConfig == InitReadConfig /\ [][NextConfig]_vars

(***************************************************************************)
(* Properties of ReadConfigFile (checked under SpecConfig).                *)
(***************************************************************************)
\* The line last consumed passed both skip tests of lines 151-154.
Accepted == linesRead > 0 /\ Len(line) >= 3 /\ line[1][1] # "#"

\* What int -> float -> str precedence gives for each token of ValueTokens,
\* written out token by token.
ExpectedScalar(tok) ==
    CASE tok = <<"7">> -> [tag |-> "int", n |-> 7, scale |-> 0, s |-> <<>>]
      [] tok = <<"1", ".", "5">> -> [tag |-> "float", n |-> 15, scale |-> 1, s |-> <<>>]
      [] OTHER -> [tag |-> "str", n |-> 0, scale |-> 0, s |-> tok]

\* C6: for an accepted line, one token left by the walk is stored as that token
\* coerced int, else float, else string; several tokens are stored as a
\* sequence with one coerced element per token, in token order.
C6_ValueShapeAndCoercion ==
    (Accepted /\ Len(ThisLine) >= 1) =>
        /\ line[1] \in DOMAIN ConfigData
        /\ LET v == ConfigData[line[1]]
           IN  /\ Len(v.items) = Len(ThisLine)
               /\ v.kind = (IF Len(ThisLine) = 1 THEN "scalar" ELSE "list")
               /\ \A k \in 1..Len(ThisLine) : v.items[k] = ExpectedScalar(ThisLine[k])

\* C6 witness: `A 1.5 7` was read and a two-element list (float, int) stored.
C6_Witness ==
    /\ Accepted
    /\ ThisLine = << <<"1", ".", "5">>, <<"7">> >>
    /\ <<"A">> \in DOMAIN ConfigData
    /\ ConfigData[<<"A">>].kind = "list"
    /\ ConfigData[<<"A">>].items[1].tag = "float"
    /\ ConfigData[<<"A">>].items[2].tag = "int"

\* C7: a line with fewer than 3 tokens (a blank line included) or whose first
\* token begins with '#' leaves the table exactly as it was; any other line
\* adds at most the key that is its first token and touches no other entry.
C7_SkippedLinesRecordNothing ==
    [][ (linesRead' = linesRead + 1) =>
          IF Len(line') < 3 \/ line'[1][1] = "#"
          THEN ConfigData' = ConfigData
          ELSE /\ (DOMAIN ConfigData') \subseteq ((DOMAIN ConfigData) \cup { line'[1] })
               /\ \A k \in (DOMAIN ConfigData) \ { line'[1] } :
                      k \in DOMAIN ConfigData' /\ ConfigData'[k] = ConfigData[k] ]_vars

\* C7 witness: an entry for A is in the table and the second line consumed was
\* a full-length line whose first token begins with '#'.
C7_Witness ==
    /\ linesRead = 2
    /\ Len(line) = 3
    /\ line[1] = <<"#", "c">>
    /\ <<"A">> \in DOMAIN ConfigData

\* Position of the first token of a list that begins with '#' (0 if none).
FirstComment(tokens) ==
    IF \E k \in 1..Len(tokens) : tokens[k][1] = "#"
    THEN CHOOSE k \in 1..Len(tokens) :
             tokens[k][1] = "#" /\ \A h \in 1..(k - 1) : tokens[h][1] # "#"
    ELSE 0

\* C8: the value tokens of an accepted line are cut at the first token that
\* begins with '#': the walk leaves no token beginning with '#' and nothing
\* from that token on, and no stored value holds a string beginning with '#'.
C8_InlineCommentTruncated ==
    /\ Accepted =>
          /\ \A k \in 1..Len(ThisLine) : ThisLine[k][1] # "#"
          /\ FirstComment(Tail(line)) > 0 => Len(ThisLine) < FirstComment(Tail(line))
    /\ \A key \in DOMAIN ConfigData :
          \A k \in 1..Len(ConfigData[key].items) :
              ConfigData[key].items[k].tag = "str" => ConfigData[key].items[k].s[1] # "#"

\* C9: every '=' token is dropped: the walk leaves no '=' token, and no stored
\* scalar or sequence element is the string '='.
C9_EqualsDropped ==
    /\ Accepted => \A k \in 1..Len(ThisLine) : ThisLine[k] # <<"=">>
    /\ \A key \in DOMAIN ConfigData :
          \A k \in 1..Len(ConfigData[key].items) :
              ~ (ConfigData[key].items[k].tag = "str" /\ ConfigData[key].items[k].s = <<"=">>)

(***************************************************************************)
(* Properties of the constructor (checked under Spec).                     *)
(***************************************************************************)
RequiredKeys == { "CollectingPhases", "PixelSize", "ChannelStopWidth", "Vbb",
                  "Vparallel_lo", "Vparallel_hi", "CCDTemperature",
                  "NumVertices", "PixelBoundaryNx", "PixelBoundaryNy" }

\* C1: the engine is constructed only when rng was None or a BaseDeviate,
\* ReadConfigFile returned success, all ten keys are present, the vertex file
\* was loaded and its size matched; a failed check always ends in a raise; and
\* a constructor that raised has an exception and no engine.
C1_NoEngineAfterFailure ==
    [][ /\ (silicon'.built /\ ~ silicon.built) =>
              /\ arg.rng \in { None, "BaseDeviate" }
              /\ cfg_success
              /\ RequiredKeys \subseteq DOMAIN ConfigData
              /\ vertex_data.loaded
              /\ vertex_data.size = 5 * ConfigData["PixelBoundaryNx"]
                                      * ConfigData["PixelBoundaryNy"]
                                      * (4 * ConfigData["NumVertices"] + 4)
        /\ (pc = "new" /\ arg.rng \notin { None, "BaseDeviate" }) => pc' = "raised"
        /\ (pc = "rng_done" /\ ~ (cfg_success' /\ RequiredKeys \subseteq DOMAIN ConfigData'))
              => pc' = "raised"
        /\ (pc = "load_done" /\ ~ vertex_data.loaded) => pc' = "raised"
        /\ (pc' = "raised") => (exc' # "none" /\ ~ silicon'.built)
        /\ (silicon'.built <=> pc' = "ready")
        /\ (pc = "raised") => (pc' = "raised" /\ silicon' = silicon) ]_vars

\* C1 witness: the vertex file could not be read after every earlier check
\* passed; the constructor raised and no engine exists.
C1_Witness ==
    /\ pc = "raised"
    /\ exc = "UnboundLocalError"
    /\ cfg_success
    /\ RequiredKeys \subseteq DOMAIN ConfigData
    /\ ~ vertex_data.loaded
    /\ ~ silicon.built

\* C2: with the dataset loaded, the engine is constructed if and only if the
\* element count equals 5*Nx*Ny*(4*NumVertices+4); otherwise the constructor
\* raises IOError; the engine receives the whole dataset.
C2_GeometryValidation ==
    [][ (pc = "load_done" /\ vertex_data.loaded /\ pc' # pc) =>
          LET expected == 5 * ConfigData["PixelBoundaryNx"]
                            * ConfigData["PixelBoundaryNy"]
                            * (4 * ConfigData["NumVertices"] + 4)
          IN  /\ silicon'.built <=> (vertex_data.size = expected)
              /\ silicon'.built =>
                    /\ pc' = "ready"
                    /\ silicon'.vertex_data = vertex_data.size
                    /\ silicon'.NumVertices = ConfigData["NumVertices"]
                    /\ silicon'.Nx = ConfigData["PixelBoundaryNx"]
                    /\ silicon'.Ny = ConfigData["PixelBoundaryNy"]
              /\ (~ silicon'.built) => (pc' = "raised" /\ exc' = "IOError") ]_vars

\* C2 witness: a 40-element dataset for NumVertices = 1 on a 1 x 1 grid was
\* accepted and handed to the engine whole.
C2_Witness ==
    /\ pc = "ready"
    /\ silicon.built
    /\ silicon.NumVertices = 1 /\ silicon.Nx = 1 /\ silicon.Ny = 1
    /\ silicon.vertex_data = 40
    /\ silicon = BuiltSensor

\* C5: when CollectingPhases is neither 1 nor 2, CalcDiffStep returns 0.0
\* without raising, whatever the other arguments are, and construction goes
\* on with DiffStep = 0.0.
C5_DisabledDiffusionIsZero ==
    ( /\ pc \in { "cfg_done", "load_done", "raised" }
      /\ cfg_success
      /\ RequiredKeys \subseteq DOMAIN ConfigData
      /\ ConfigData["CollectingPhases"] \notin { 1, 2 } )
    => /\ exc # "ZeroDivisionError"
       /\ pc \in { "cfg_done", "load_done" } => DiffStep = Zero

\* C10: when CollectingPhases is 1 or 2 and Vdiff <= 0, the constructor does
\* not go on to build the engine from the resulting diffusion step.
C10_NonPositiveVdiffSurfaced ==
    [][ ( /\ pc = "load_done"
          /\ ConfigData["CollectingPhases"] \in { 1, 2 }
          /\ (IF ConfigData["CollectingPhases"] = 1
              THEN 2 * ConfigData["Vparallel_lo"] + ConfigData["Vparallel_hi"]
              ELSE ConfigData["Vparallel_lo"] + 2 * ConfigData["Vparallel_hi"])
               <= 3 * ConfigData["Vbb"] )
        => ~ silicon'.built ]_vars

(***************************************************************************)
(* Properties of accumulate (checked under SpecAccumulate).                *)
(***************************************************************************)
\* C3: the engine is called with (photons, self.rng, image) and leaves the
\* log alone; with a log path set, the log is by then closed and holds the
\* header and one record per photon; a failed open ends the call with IOError,
\* the engine not called and the image unchanged; with no log path nothing is
\* written and the call goes straight to the engine.
C3_LogBeforeDelegation ==
    [][ /\ (engineCalls' = engineCalls + 1) =>
              /\ lastCall' = [made |-> TRUE, photons |-> photons,
                              rng |-> rng, image |-> image]
              /\ logFile' = logFile
              /\ photon_file # None =>
                    /\ ~ logOpen
                    /\ logFile.exists
                    /\ Len(logFile.lines) = 1 + Len(photons.ph)
                    /\ logFile.lines[1] = Header
        /\ (pc = "wp_open" /\ pc' # "wp_header") =>
              /\ pc' = "ready" /\ exc' = "IOError"
              /\ engineCalls' = engineCalls /\ image' = image /\ lastCall' = lastCall
              /\ logFile' = logFile
        /\ (photon_file = None) => (logFile' = logFile /\ logWrites' = logWrites)
        /\ (photon_file = None /\ pc = "ready" /\ pc' # "ready") => pc' = "delegate"
        /\ (image' # image) => (engineCalls' = engineCalls + 1) ]_vars

\* C3 witness: a call with a log path returned after the engine was called on
\* a two-photon batch, the log holding the header and two records.
C3_Witness ==
    /\ pc = "ready"
    /\ photon_file # None
    /\ engineCalls = 1
    /\ logWrites = 1
    /\ Len(lastCall.photons.ph) = 2
    /\ Len(logFile.lines) = 3
    /\ image = 2

\* What '%.6f' prints for each value the photons of PhotonSet carry, written
\* out value by value (in units of 1e-6).
Printed(v) ==
    CASE v = 35000004 -> 3500000
      [] v = 45000000 -> 4500000
      [] v = 1000006 -> 100001
      [] v = -2000006 -> -200001
      [] v = 2000000004 -> 200000000
      [] v = 12000006 -> 1200001
      [] v = 7 -> 1
      [] v = 0 -> 0
      [] v = 3000000 -> 300000
      [] v = 1500000000 -> 150000000

\* C4: once a logging call has written its log, the file is exactly the header
\* followed by one record per photon of that batch, indices 0..n-1 in batch
\* order, whatever the file held before; dxdz and dydz are 0.0 without angle
\* data, the wavelength is 0.0 without wavelength data.
C4_LogOverwritten ==
    (pc = "delegate" /\ photon_file # None) =>
        /\ logFile.exists
        /\ Len(logFile.lines) = 1 + Len(photons.ph)
        /\ logFile.lines[1] = Header
        /\ \A k \in 1..Len(photons.ph) :
              logFile.lines[k + 1] =
                  [ID |-> k - 1,
                   x |-> Printed(photons.ph[k].x),
                   y |-> Printed(photons.ph[k].y),
                   dxdz |-> IF photons.hasAngles THEN Printed(photons.ph[k].dxdz) ELSE 0,
                   dydz |-> IF photons.hasAngles THEN Printed(photons.ph[k].dydz) ELSE 0,
                   lamb |-> IF photons.hasWavelengths
                            THEN Printed(photons.ph[k].wavelength) ELSE 0]

\* C4 witness: the second logging call, on a one-photon batch without angle or
\* wavelength data, has replaced the three-line log of a two-photon batch.
C4_Witness ==
    /\ pc = "delegate"
    /\ photon_file # None
    /\ logWrites = 2
    /\ engineCalls = 1
    /\ Len(lastCall.photons.ph) = 2
    /\ Len(photons.ph) = 1
    /\ ~ photons.hasAngles /\ ~ photons.hasWavelengths
    /\ Len(logFile.lines) = 2
    /\ logFile.lines[2].dxdz = 0 /\ logFile.lines[2].lamb = 0

====
